---- MODULE Spec2Model ----
(***************************************************************************)
(* Contact form controller of clad-website                                 *)
(* (src/src/components/ContactForm.tsx): client-side validation, the       *)
(* submission cooldown and the idle / submitting / success / error state   *)
(* machine around one HTTP POST.                                           *)
(*                                                                         *)
(* Text is a sequence of one-character strings, so that trim(), length     *)
(* and the e-mail pattern are computed and not assumed.                    *)
(***************************************************************************)
EXTENDS Integers, Sequences, FiniteSets, TLC

VARIABLES status, errorMessage, touched, lastSubmitTime,
          name, email, organization, role, message,
          clock, endpoint, inflight, posts, event, prevAttempt

vars == <<status, errorMessage, touched, lastSubmitTime,
          name, email, organization, role, message,
          clock, endpoint, inflight, posts, event, prevAttempt>>

fieldValues == <<name, email, organization, role, message>>

(***************************************************************************)
(* Program constants: VALIDATION_RULES.                                    *)
(***************************************************************************)
MIN_NAME_LENGTH == 2
MIN_ORGANIZATION_LENGTH == 2
MIN_MESSAGE_LENGTH == 10
RATE_LIMIT_COOLDOWN_MS == 3000

(***************************************************************************)
(* Bounds of the model.  MountTime stands for Date.now() when the          *)
(* component is mounted (milliseconds since 1970, so far above the         *)
(* cooldown); the clock is followed for MaxElapsed ms after the mount.     *)
(***************************************************************************)
MountTime == 10000
MaxElapsed == 4000
MaxEmailLen == 6
MaxClockElapsed == 7000
TickSteps == {1500, 2500}

(***************************************************************************)
(* Text helpers.                                                           *)
(***************************************************************************)
Str(n, c) == [i \in 1..n |-> c]

\* U+00A0, whitespace for trim() and for \s, kept by <input type="email">
NBSP == " "

\* U+000B LINE TABULATION, U+1680 OGHAM SPACE MARK, U+FEFF ZERO WIDTH NO-BREAK SPACE
VT == ""
OghamSpace == " "
ZWNBSP == "﻿"

\* WhiteSpace and LineTerminator of ECMAScript, the characters that trim()
\* strips and \s matches; U+2000..U+200A, U+2028, U+2029, U+202F, U+205F and
\* U+3000 belong to them too and cannot be written in a string here
IsSpace(c) == c \in {" ", "\t", "\n", "\r", "\f", VT, NBSP, OghamSpace, ZWNBSP}

RECURSIVE TrimStart(_)
TrimStart(s) ==
    IF s # <<>> /\ IsSpace(Head(s)) THEN TrimStart(Tail(s)) ELSE s

RECURSIVE TrimEnd(_)
TrimEnd(s) ==
    IF s # <<>> /\ IsSpace(s[Len(s)])
    THEN TrimEnd(SubSeq(s, 1, Len(s) - 1))
    ELSE s

\* String.prototype.trim
Trim(s) == TrimEnd(TrimStart(s))

\* a character of the class [^\s@]
IsLocalChar(c) == ~IsSpace(c) /\ c # "@"

AllLocal(s, from, to) == \A k \in from..to : IsLocalChar(s[k])

\* the pattern with a top-level part of one character or more
validateEmailShortTld(s) ==
    \E i \in 1..Len(s) : \E j \in 1..Len(s) :
        /\ s[i] = "@"
        /\ i >= 2
        /\ AllLocal(s, 1, i - 1)
        /\ s[j] = "."
        /\ j >= i + 2
        /\ AllLocal(s, i + 1, j - 1)
        /\ Len(s) - j >= 1
        /\ AllLocal(s, j + 1, Len(s))

\* /^[^\s@]+@[^\s@]+\.[^\s@]{2,}$/u .test(s)
validateEmail(s) ==
    \E i \in 1..Len(s) : \E j \in 1..Len(s) :
        /\ s[i] = "@"
        /\ i >= 2
        /\ AllLocal(s, 1, i - 1)
        /\ s[j] = "."
        /\ j >= i + 2
        /\ AllLocal(s, i + 1, j - 1)
        /\ Len(s) - j >= 2
        /\ AllLocal(s, j + 1, Len(s))

(***************************************************************************)
(* Validation: the memo errors() as a function whose domain is the set of  *)
(* failing fields, and isValid() as the emptiness of that domain.          *)
(***************************************************************************)
ErrorFields == {"name", "email", "organization", "message"}

\* the name rule applied to the raw value
NameErrorUntrimmed(n) ==
    IF n = <<>> THEN "Name is required"
    ELSE IF Len(n) < MIN_NAME_LENGTH
         THEN "Name must be at least " \o ToString(MIN_NAME_LENGTH) \o " characters"
         ELSE ""

NameError(n) ==
    IF Trim(n) = <<>> THEN "Name is required"
    ELSE IF Len(Trim(n)) < MIN_NAME_LENGTH
         THEN "Name must be at least " \o ToString(MIN_NAME_LENGTH) \o " characters"
         ELSE ""

EmailError(e) ==
    IF Trim(e) = <<>> THEN "Email is required"
    ELSE IF ~validateEmail(Trim(e)) THEN "Please enter a valid email address"
         ELSE ""

OrganizationError(o) ==
    IF Trim(o) # <<>> /\ Len(Trim(o)) < MIN_ORGANIZATION_LENGTH
    THEN "Organization must be at least " \o ToString(MIN_ORGANIZATION_LENGTH) \o " characters"
    ELSE ""

\* the message rule with <= for <
MessageErrorOffByOne(m) ==
    IF Trim(m) = <<>> THEN "Message is required"
    ELSE IF Len(Trim(m)) <= MIN_MESSAGE_LENGTH
         THEN "Message must be at least " \o ToString(MIN_MESSAGE_LENGTH) \o " characters"
         ELSE ""

MessageError(m) ==
    IF Trim(m) = <<>> THEN "Message is required"
    ELSE IF Len(Trim(m)) < MIN_MESSAGE_LENGTH
         THEN "Message must be at least " \o ToString(MIN_MESSAGE_LENGTH) \o " characters"
         ELSE ""

FieldError(f, n, e, o, m) ==
    CASE f = "name" -> NameError(n)
      [] f = "email" -> EmailError(e)
      [] f = "organization" -> OrganizationError(o)
      [] f = "message" -> MessageError(m)

ErrorsOf(n, e, o, m) ==
    [f \in {g \in ErrorFields : FieldError(g, n, e, o, m) # ""}
        |-> FieldError(f, n, e, o, m)]

errors == ErrorsOf(name, email, organization, message)

IsValidOf(n, e, o, m) == DOMAIN ErrorsOf(n, e, o, m) = {}

isValid == IsValidOf(name, email, organization, message)

\* an error text that does not wait for the field to be touched
showErrorUngated(f) == IF f \in DOMAIN errors THEN errors[f] ELSE ""

\* showError(field): the text displayed under a field, "" for none
showError(f) == IF f \in touched /\ f \in DOMAIN errors THEN errors[f] ELSE ""

(***************************************************************************)
(* Inputs the user can type or select, as the controls hand them over:     *)
(* a single-line input holds no U+000A and no U+000D, the e-mail input     *)
(* also no leading or trailing space, tab or form feed, and the textarea   *)
(* holds its line breaks as U+000A.                                        *)
(***************************************************************************)
NameInputs == {<<>>, <<"\f", "a", "b", " ">>}
EmailInputs == {<<>>, <<"a", "@", "b", ".", "c", "o">>}
OrganizationInputs == {<<>>, <<"a">>, <<"a", "b">>}
RoleInputs == {"", "Other"}
MessageInputs == {<<>>, <<"\f">> \o Str(MIN_MESSAGE_LENGTH, "m")}

Endpoints == {"", "https://formspree.io/f/test123"}

\* what the network does with a POST: fetch() resolves with an ok answer,
\* resolves with a rejected answer whose body carries a first message, no
\* message, or no JSON at all, or fetch() rejects (transport failure)
NotJson == "<not json>"

Responses ==
    { [kind |-> "ok", body |-> ""],
      [kind |-> "http", body |-> "Server error"],
      [kind |-> "http", body |-> ""],
      [kind |-> "http", body |-> NotJson],
      [kind |-> "transport", body |-> ""] }

(***************************************************************************)
(* Messages of the error banner.                                           *)
(***************************************************************************)
CeilDiv(a, b) == -((-a) \div b)

\* the remaining wait rounded down
remainingSecondsFloor(timeSinceLastSubmit) ==
    (RATE_LIMIT_COOLDOWN_MS - timeSinceLastSubmit) \div 1000

remainingSeconds(timeSinceLastSubmit) ==
    CeilDiv(RATE_LIMIT_COOLDOWN_MS - timeSinceLastSubmit, 1000)

RateLimitMessage(sec) ==
    "Please wait " \o ToString(sec) \o " seconds before submitting again."

ConfigErrorMessage == "Form configuration error. Please contact support."
GenericErrorMessage == "Something went wrong. Please try again."
NetworkErrorMessage == "Network error. Please check your connection and try again."

\* a POST whose answer has not arrived
Pending == [kind |-> "pending", body |-> ""]

AllTouched == {"name", "email", "organization", "message"}

\* a body built from the raw signals
RequestBodyUntrimmed ==
    [name |-> name, email |-> email, organization |-> organization,
     role |-> role, message |-> message]

\* body: JSON.stringify({...}) of the trimmed values, role as it is
RequestBody ==
    [name |-> Trim(name), email |-> Trim(email),
     organization |-> Trim(organization), role |-> role,
     message |-> Trim(message)]

(***************************************************************************)
(* Initial state: the signals as created at mount.                         *)
(***************************************************************************)
Init ==
    /\ status = "idle"
    /\ errorMessage = ""
    /\ touched = {}
    /\ lastSubmitTime = 0
    /\ name = <<>>
    /\ email = <<>>
    /\ organization = <<>>
    /\ role = ""
    /\ message = <<>>
    /\ clock = MountTime
    /\ endpoint \in Endpoints
    /\ inflight = {}
    /\ posts = <<>>
    /\ event = "mount"
    /\ prevAttempt = [time |-> 0, posts |-> 0, made |-> FALSE]

\* const timeSinceLastSubmit = now - lastSubmitTime()
timeSinceLastSubmit == clock - lastSubmitTime

\* a cooldown kept in seconds while the clock counts milliseconds
rateLimitedInSeconds == timeSinceLastSubmit < RATE_LIMIT_COOLDOWN_MS \div 1000

\* if (timeSinceLastSubmit < VALIDATION_RULES.RATE_LIMIT_COOLDOWN_MS)
rateLimited == timeSinceLastSubmit < RATE_LIMIT_COOLDOWN_MS

\* controls that stay enabled while status is submitting
FormEnabledWhileSubmitting == status # "success"

\* a form whose controls work in the idle state only
FormEnabledOnlyIdle == status = "idle"

\* the form (inputs and submit button) is rendered unless status is success,
\* and its controls are disabled while status is submitting
FormEnabled == status \notin {"success", "submitting"}

(***************************************************************************)
(* User input.                                                             *)
(***************************************************************************)
InputName ==
    /\ FormEnabled
    /\ event' = "input"
    /\ \E v \in NameInputs : name' = v
    /\ UNCHANGED <<status, errorMessage, touched, lastSubmitTime, email,
                   organization, role, message, clock, endpoint, inflight, posts, prevAttempt>>

InputEmail ==
    /\ FormEnabled
    /\ event' = "input"
    /\ \E v \in EmailInputs : email' = v
    /\ UNCHANGED <<status, errorMessage, touched, lastSubmitTime, name,
                   organization, role, message, clock, endpoint, inflight, posts, prevAttempt>>

InputOrganization ==
    /\ FormEnabled
    /\ event' = "input"
    /\ \E v \in OrganizationInputs : organization' = v
    /\ UNCHANGED <<status, errorMessage, touched, lastSubmitTime, name,
                   email, role, message, clock, endpoint, inflight, posts, prevAttempt>>

ChangeRole ==
    /\ FormEnabled
    /\ event' = "input"
    /\ \E v \in RoleInputs : role' = v
    /\ UNCHANGED <<status, errorMessage, touched, lastSubmitTime, name,
                   email, organization, message, clock, endpoint, inflight, posts, prevAttempt>>

InputMessage ==
    /\ FormEnabled
    /\ event' = "input"
    /\ \E v \in MessageInputs : message' = v
    /\ UNCHANGED <<status, errorMessage, touched, lastSubmitTime, name,
                   email, organization, role, clock, endpoint, inflight, posts, prevAttempt>>

\* onBlur of an input: markTouched(field)
markTouched(f) ==
    /\ FormEnabled
    /\ touched' = touched \cup {f}
    /\ event' = "blur"
    /\ UNCHANGED <<status, errorMessage, lastSubmitTime, fieldValues,
                   clock, endpoint, inflight, posts, prevAttempt>>

Blur == \E f \in ErrorFields : markTouched(f)

(***************************************************************************)
(* handleSubmit up to its first await.  Every branch starts with           *)
(* setTouched({name, email, organization, message}); prevAttempt keeps     *)
(* the time of the last attempt that passed validation and the number of   *)
(* POSTs it issued.                                                        *)
(***************************************************************************)
\* an early return on invalid input placed before setTouched
SubmitInvalidUntouched ==
    /\ ~isValid
    /\ UNCHANGED <<status, errorMessage, touched, lastSubmitTime, fieldValues,
                   clock, endpoint, inflight, posts, prevAttempt>>

SubmitInvalid ==
    /\ ~isValid
    /\ touched' = AllTouched
    /\ UNCHANGED <<status, errorMessage, lastSubmitTime, fieldValues,
                   clock, endpoint, inflight, posts, prevAttempt>>

\* a rejected attempt that restarts the cooldown
SubmitRateLimitedRestamps ==
    /\ isValid
    /\ rateLimited
    /\ touched' = AllTouched
    /\ errorMessage' = RateLimitMessage(remainingSeconds(timeSinceLastSubmit))
    /\ status' = "error"
    /\ lastSubmitTime' = clock
    /\ prevAttempt' = [time |-> clock, posts |-> 0, made |-> TRUE]
    /\ UNCHANGED <<fieldValues, clock, endpoint, inflight, posts>>

SubmitRateLimited ==
    /\ isValid
    /\ rateLimited
    /\ touched' = AllTouched
    /\ errorMessage' = RateLimitMessage(remainingSeconds(timeSinceLastSubmit))
    /\ status' = "error"
    /\ prevAttempt' = [time |-> clock, posts |-> 0, made |-> TRUE]
    /\ UNCHANGED <<lastSubmitTime, fieldValues, clock, endpoint, inflight, posts>>

\* a configuration error that returns without setStatus("error")
SubmitNoEndpointStuck ==
    /\ isValid
    /\ ~rateLimited
    /\ endpoint = ""
    /\ touched' = AllTouched
    /\ lastSubmitTime' = clock
    /\ errorMessage' = ConfigErrorMessage
    /\ status' = "submitting"
    /\ prevAttempt' = [time |-> clock, posts |-> 0, made |-> TRUE]
    /\ UNCHANGED <<fieldValues, clock, endpoint, inflight, posts>>

SubmitNoEndpoint ==
    /\ isValid
    /\ ~rateLimited
    /\ endpoint = ""
    /\ touched' = AllTouched
    /\ lastSubmitTime' = clock
    /\ errorMessage' = ConfigErrorMessage
    /\ status' = "error"
    /\ prevAttempt' = [time |-> clock, posts |-> 0, made |-> TRUE]
    /\ UNCHANGED <<fieldValues, clock, endpoint, inflight, posts>>

\* a send that does not look at isValid()
SubmitSendUnvalidated ==
    /\ ~rateLimited
    /\ endpoint # ""
    /\ touched' = AllTouched
    /\ status' = "submitting"
    /\ errorMessage' = ""
    /\ lastSubmitTime' = clock
    /\ posts' = Append(posts, [time |-> clock, outcome |-> "pending"])
    /\ inflight' = inflight \cup {[id |-> Len(posts) + 1, phase |-> "fetch",
                                   request |-> RequestBody, response |-> Pending]}
    /\ prevAttempt' = [time |-> clock, posts |-> 1, made |-> TRUE]
    /\ UNCHANGED <<fieldValues, clock, endpoint>>

\* a send that forgets setLastSubmitTime(now)
SubmitSendUnstamped ==
    /\ isValid
    /\ ~rateLimited
    /\ endpoint # ""
    /\ touched' = AllTouched
    /\ status' = "submitting"
    /\ errorMessage' = ""
    /\ posts' = Append(posts, [time |-> clock, outcome |-> "pending"])
    /\ inflight' = inflight \cup {[id |-> Len(posts) + 1, phase |-> "fetch",
                                   request |-> RequestBody, response |-> Pending]}
    /\ prevAttempt' = [time |-> clock, posts |-> 1, made |-> TRUE]
    /\ UNCHANGED <<lastSubmitTime, fieldValues, clock, endpoint>>

SubmitSend ==
    /\ isValid
    /\ ~rateLimited
    /\ endpoint # ""
    /\ touched' = AllTouched
    /\ status' = "submitting"
    /\ errorMessage' = ""
    /\ lastSubmitTime' = clock
    /\ posts' = Append(posts, [time |-> clock, outcome |-> "pending"])
    /\ inflight' = inflight \cup {[id |-> Len(posts) + 1, phase |-> "fetch",
                                   request |-> RequestBody, response |-> Pending]}
    /\ prevAttempt' = [time |-> clock, posts |-> 1, made |-> TRUE]
    /\ UNCHANGED <<fieldValues, clock, endpoint>>

\* a submit button that is not disabled while status is submitting
handleSubmitNotDisabled ==
    /\ status # "success"
    /\ event' = "submit"
    /\ (SubmitInvalid \/ SubmitRateLimited \/ SubmitNoEndpoint \/ SubmitSend)

handleSubmit ==
    /\ FormEnabled
    /\ event' = "submit"
    /\ (SubmitInvalid \/ SubmitRateLimited \/ SubmitNoEndpoint \/ SubmitSend)

(***************************************************************************)
(* While status is submitting the inputs, the select and the submit button *)
(* carry disabled: the user acting on them runs no handler.                *)
(***************************************************************************)
Disabled == status = "submitting"

ClickDisabledSubmit ==
    /\ Disabled
    /\ event' = "submitDisabled"
    /\ UNCHANGED <<status, errorMessage, touched, lastSubmitTime, fieldValues,
                   clock, endpoint, inflight, posts, prevAttempt>>

UseDisabledInput ==
    /\ Disabled
    /\ event' = "inputDisabled"
    /\ UNCHANGED <<status, errorMessage, touched, lastSubmitTime, fieldValues,
                   clock, endpoint, inflight, posts, prevAttempt>>

(***************************************************************************)
(* The network settles the promise of fetch(): it resolves with a response *)
(* (ok or not) or rejects.  Nothing of the form changes yet.               *)
(***************************************************************************)
FetchSettled ==
    /\ event' = "network"
    /\ \E r \in inflight : \E resp \in Responses :
        /\ r.phase = "fetch"
        /\ inflight' = (inflight \ {r}) \cup
                          {[r EXCEPT !.phase = "settled", !.response = resp]}
    /\ UNCHANGED <<status, errorMessage, touched, lastSubmitTime, fieldValues,
                   clock, endpoint, posts, prevAttempt>>

(***************************************************************************)
(* handleSubmit resumed after the await of fetch(), and after the await of *)
(* response.json().                                                        *)
(***************************************************************************)
\* a success whose reset forgets the role select
ResponseOkKeepsRole(r) ==
    /\ r.response.kind = "ok"
    /\ status' = "success"
    /\ name' = <<>>
    /\ email' = <<>>
    /\ organization' = <<>>
    /\ message' = <<>>
    /\ touched' = {}
    /\ inflight' = inflight \ {r}
    /\ posts' = [posts EXCEPT ![r.id].outcome = "success"]
    /\ UNCHANGED <<errorMessage, role, lastSubmitTime, clock, endpoint, prevAttempt>>

\* a success that resets the fields and keeps the touched flags
ResponseOkKeepsTouched(r) ==
    /\ r.response.kind = "ok"
    /\ status' = "success"
    /\ name' = <<>>
    /\ email' = <<>>
    /\ organization' = <<>>
    /\ role' = ""
    /\ message' = <<>>
    /\ inflight' = inflight \ {r}
    /\ posts' = [posts EXCEPT ![r.id].outcome = "success"]
    /\ UNCHANGED <<errorMessage, touched, lastSubmitTime, clock, endpoint, prevAttempt>>

\* a success that also restarts the cooldown at completion
ResponseOkRestamps(r) ==
    /\ r.response.kind = "ok"
    /\ status' = "success"
    /\ name' = <<>>
    /\ email' = <<>>
    /\ organization' = <<>>
    /\ role' = ""
    /\ message' = <<>>
    /\ touched' = {}
    /\ lastSubmitTime' = clock
    /\ inflight' = inflight \ {r}
    /\ posts' = [posts EXCEPT ![r.id].outcome = "success"]
    /\ UNCHANGED <<errorMessage, clock, endpoint, prevAttempt>>

ResponseOk(r) ==
    /\ r.response.kind = "ok"
    /\ status' = "success"
    /\ name' = <<>>
    /\ email' = <<>>
    /\ organization' = <<>>
    /\ role' = ""
    /\ message' = <<>>
    /\ touched' = {}
    /\ inflight' = inflight \ {r}
    /\ posts' = [posts EXCEPT ![r.id].outcome = "success"]
    /\ UNCHANGED <<errorMessage, lastSubmitTime, clock, endpoint, prevAttempt>>

ResponseNotOk(r) ==
    /\ r.response.kind = "http"
    /\ inflight' = (inflight \ {r}) \cup {[r EXCEPT !.phase = "json"]}
    /\ UNCHANGED <<status, errorMessage, touched, lastSubmitTime, fieldValues,
                   clock, endpoint, posts, prevAttempt>>

\* a transport failure that gives the cooldown back
FetchRejectedForgives(r) ==
    /\ r.response.kind = "transport"
    /\ errorMessage' = NetworkErrorMessage
    /\ status' = "error"
    /\ lastSubmitTime' = 0
    /\ inflight' = inflight \ {r}
    /\ posts' = [posts EXCEPT ![r.id].outcome = "error"]
    /\ UNCHANGED <<touched, fieldValues, clock, endpoint, prevAttempt>>

FetchRejected(r) ==
    /\ r.response.kind = "transport"
    /\ errorMessage' = NetworkErrorMessage
    /\ status' = "error"
    /\ inflight' = inflight \ {r}
    /\ posts' = [posts EXCEPT ![r.id].outcome = "error"]
    /\ UNCHANGED <<touched, lastSubmitTime, fieldValues, clock, endpoint, prevAttempt>>

AfterFetch ==
    /\ event' = "response"
    /\ \E r \in inflight :
        /\ r.phase = "settled"
        /\ (ResponseOk(r) \/ ResponseNotOk(r) \/ FetchRejected(r))

\* a rejected answer that also resets the draft, like the success path
JsonParsedClearsDraft(r) ==
    /\ r.response.body # NotJson
    /\ errorMessage' = (IF r.response.body # "" THEN r.response.body
                                                 ELSE GenericErrorMessage)
    /\ status' = "error"
    /\ name' = <<>>
    /\ email' = <<>>
    /\ organization' = <<>>
    /\ role' = ""
    /\ message' = <<>>
    /\ inflight' = inflight \ {r}
    /\ posts' = [posts EXCEPT ![r.id].outcome = "error"]
    /\ UNCHANGED <<touched, lastSubmitTime, clock, endpoint, prevAttempt>>

\* the first message of the body shown as it is, without the fallback text
JsonParsedNoFallback(r) ==
    /\ r.response.body # NotJson
    /\ errorMessage' = r.response.body
    /\ status' = "error"
    /\ inflight' = inflight \ {r}
    /\ posts' = [posts EXCEPT ![r.id].outcome = "error"]
    /\ UNCHANGED <<touched, lastSubmitTime, fieldValues, clock, endpoint, prevAttempt>>

JsonParsed(r) ==
    /\ r.response.body # NotJson
    /\ errorMessage' = (IF r.response.body # "" THEN r.response.body
                                                 ELSE GenericErrorMessage)
    /\ status' = "error"
    /\ inflight' = inflight \ {r}
    /\ posts' = [posts EXCEPT ![r.id].outcome = "error"]
    /\ UNCHANGED <<touched, lastSubmitTime, fieldValues, clock, endpoint, prevAttempt>>

JsonRejected(r) ==
    /\ r.response.body = NotJson
    /\ errorMessage' = NetworkErrorMessage
    /\ status' = "error"
    /\ inflight' = inflight \ {r}
    /\ posts' = [posts EXCEPT ![r.id].outcome = "error"]
    /\ UNCHANGED <<touched, lastSubmitTime, fieldValues, clock, endpoint, prevAttempt>>

AfterJson ==
    /\ event' = "response"
    /\ \E r \in inflight :
        /\ r.phase = "json"
        /\ (JsonParsed(r) \/ JsonRejected(r))

(***************************************************************************)
(* The button of the success panel: onClick={() => setStatus("idle")}.     *)
(***************************************************************************)
SendAnother ==
    /\ status = "success"
    /\ status' = "idle"
    /\ event' = "sendAnother"
    /\ UNCHANGED <<errorMessage, touched, lastSubmitTime, fieldValues,
                   clock, endpoint, inflight, posts, prevAttempt>>

(***************************************************************************)
(* Date.now() moves forward between events.                                *)
(***************************************************************************)
Tick ==
    /\ \E d \in TickSteps :
        /\ clock + d <= MountTime + MaxElapsed
        /\ clock' = clock + d
    /\ event' = "tick"
    /\ UNCHANGED <<status, errorMessage, touched, lastSubmitTime, fieldValues,
                   endpoint, inflight, posts, prevAttempt>>

Next ==
    \/ InputName
    \/ InputEmail
    \/ InputOrganization
    \/ ChangeRole
    \/ InputMessage
    \/ Blur
    \/ handleSubmit
    \/ ClickDisabledSubmit
    \/ UseDisabledInput
    \/ FetchSettled
    \/ AfterFetch
    \/ AfterJson
    \/ SendAnother
    \/ Tick

Spec == Init /\ [][Next]_vars

(***************************************************************************)
(* Validation on its own: the form as the user has filled it, with the     *)
(* e-mail field swept over every text of up to MaxEmailLen characters,     *)
(* each other field swept over its lengths around the minimum with and     *)
(* without surrounding whitespace, and the combinations of a few values    *)
(* per field; the submit click then runs the validation.                   *)
(***************************************************************************)
EmailAlphabet == {"a", "@", ".", NBSP}

AtBCo == <<"a", "@", "b", ".", "c", "o">>
InvalidEmail == <<"i", "n", "v", "a", "l", "i", "d", "-", "e", "m", "a", "i", "l">>

EmailTexts ==
    UNION {[1..n -> EmailAlphabet] : n \in 0..MaxEmailLen}
        \cup {AtBCo, InvalidEmail, <<NBSP>> \o AtBCo \o <<NBSP>>,
              <<VT>> \o AtBCo \o <<OghamSpace>>, <<VT, ZWNBSP>>,
              <<"a", "\f", "@", "b", ".", "c", "o">>}

\* whitespace that every one of the text controls keeps in its value
Pads == {<<>>, <<" ">>, <<"\t", VT>>}

Surround(S) == {l \o c \o r : l \in Pads, c \in S, r \in Pads}

NameTexts == Surround({Str(k, "a") : k \in 0..(MIN_NAME_LENGTH + 1)})

OrganizationTexts == Surround({Str(k, "o") : k \in 0..(MIN_ORGANIZATION_LENGTH + 1)})

MessageTexts ==
    Surround({Str(k, "m") : k \in {0, 1, MIN_MESSAGE_LENGTH - 1,
                                   MIN_MESSAGE_LENGTH, MIN_MESSAGE_LENGTH + 1}}
             \cup {Str(4, "m") \o <<" ">> \o Str(5, "m")})
        \cup {<<"\n">> \o Str(MIN_MESSAGE_LENGTH, "m") \o <<"\n">>}

NameSamples == {<<>>, <<" ">>, <<"a">>, <<"\f", "a", "b", " ">>}
EmailSamples == {<<>>, <<NBSP>>, <<"a", "b">>, AtBCo}
OrganizationSamples == {<<>>, <<OghamSpace>>, <<"o">>, <<"o", "r">>}
MessageSamples ==
    {<<>>, <<"\n", "\t">>, Str(MIN_MESSAGE_LENGTH - 1, "m"),
     <<ZWNBSP>> \o Str(MIN_MESSAGE_LENGTH, "m")}

ValInit ==
    /\ status = "idle"
    /\ errorMessage = ""
    /\ touched = {}
    /\ lastSubmitTime = 0
    /\ clock = MountTime
    /\ endpoint \in Endpoints
    /\ inflight = {}
    /\ posts = <<>>
    /\ event = "input"
    /\ prevAttempt = [time |-> 0, posts |-> 0, made |-> FALSE]
    /\ \/ /\ email \in EmailTexts
          /\ name = <<>>
          /\ organization = <<>>
          /\ role = ""
          /\ message = <<>>
       \/ /\ name \in NameTexts
          /\ email = AtBCo
          /\ organization = <<>>
          /\ role = ""
          /\ message = Str(MIN_MESSAGE_LENGTH, "m")
       \/ /\ organization \in OrganizationTexts
          /\ name = <<"a", "b">>
          /\ email = AtBCo
          /\ role = ""
          /\ message = Str(MIN_MESSAGE_LENGTH, "m")
       \/ /\ message \in MessageTexts
          /\ name = <<"a", "b">>
          /\ email = AtBCo
          /\ organization = <<>>
          /\ role = ""
       \/ /\ name \in NameSamples
          /\ email \in EmailSamples
          /\ organization \in OrganizationSamples
          /\ role \in RoleInputs
          /\ message \in MessageSamples

ValNext == handleSubmit

SpecValidation == ValInit /\ [][ValNext]_vars

(***************************************************************************)
(* The cooldown arithmetic on its own: a filled-in, valid form, and a      *)
(* clock that reads MountTime or a millisecond more at the mount.  Time    *)
(* passes until the clock stands a chosen number of milliseconds after     *)
(* the cooldown timestamp, the values on both sides of every whole second  *)
(* up to the cooldown, for MaxClockElapsed ms after the mount.             *)
(***************************************************************************)
ClockStarts == {MountTime, MountTime + 1}

ElapsedSteps ==
    {1, 999, 1000, 1001, 1999, 2000, 2001,
     RATE_LIMIT_COOLDOWN_MS - 1, RATE_LIMIT_COOLDOWN_MS, RATE_LIMIT_COOLDOWN_MS + 1}

ClockInit ==
    /\ status = "idle"
    /\ errorMessage = ""
    /\ touched = {}
    /\ lastSubmitTime = 0
    /\ name = <<"a", "b">>
    /\ email = AtBCo
    /\ organization = <<>>
    /\ role = ""
    /\ message = Str(MIN_MESSAGE_LENGTH, "m")
    /\ clock \in ClockStarts
    /\ endpoint \in Endpoints
    /\ inflight = {}
    /\ posts = <<>>
    /\ event = "input"
    /\ prevAttempt = [time |-> 0, posts |-> 0, made |-> FALSE]

ClockTick ==
    /\ \E e \in ElapsedSteps :
        /\ lastSubmitTime + e > clock
        /\ lastSubmitTime + e <= MountTime + MaxClockElapsed
        /\ clock' = lastSubmitTime + e
    /\ event' = "tick"
    /\ UNCHANGED <<status, errorMessage, touched, lastSubmitTime, fieldValues,
                   endpoint, inflight, posts, prevAttempt>>

ClockNext ==
    \/ handleSubmit
    \/ ClockTick
    \/ FetchSettled
    \/ AfterFetch
    \/ AfterJson
    \/ SendAnother

SpecClock == ClockInit /\ [][ClockNext]_vars

(***************************************************************************)
(* Properties.                                                             *)
(***************************************************************************)
\* every field passes validation, rule by rule
AllFieldsPass ==
    /\ NameError(name) = ""
    /\ EmailError(email) = ""
    /\ OrganizationError(organization) = ""
    /\ MessageError(message) = ""

\* the requests in flight, by the number of their POST
Ids(S) == {r.id : r \in S}

IsRateLimitMessage(m) == \E n \in 1..3 : m = RateLimitMessage(n)

\* C1: status enters submitting, and a POST is issued, only in a submit step
\* taken while name, email, organization and message all pass validation.
C1_SubmittingOnlyWhenValid ==
    [][ ((status # "submitting" /\ status' = "submitting")
            \/ Len(posts') # Len(posts)
            \/ Ids(inflight') \ Ids(inflight) # {})
        => (/\ event' = "submit"
            /\ AllFieldsPass
            /\ fieldValues' = fieldValues) ]_vars

C1_Witness ==
    /\ status = "submitting"
    /\ event = "submit"
    /\ Len(posts) = 2
    /\ posts[1].outcome = "error"

\* C2: any two POSTs of one mounted form are started at least 3000 ms apart.
C2_PostsSpaced ==
    \A i \in DOMAIN posts : \A j \in DOMAIN posts :
        i < j => posts[j].time - posts[i].time >= RATE_LIMIT_COOLDOWN_MS

C2_Witness ==
    /\ Len(posts) = 2
    /\ posts[2].time - posts[1].time = RATE_LIMIT_COOLDOWN_MS

\* C3: a submit with all fields valid made less than 3000 ms after the
\* cooldown timestamp sets status error with the message that states the
\* remaining wait (in whole seconds, rounded up), issues no request and
\* leaves the five field values and the cooldown timestamp as they were.
C3_RateLimitedSubmit ==
    [][ (event' = "submit" /\ AllFieldsPass
            /\ clock - lastSubmitTime < RATE_LIMIT_COOLDOWN_MS)
        => (/\ status' = "error"
            /\ \E n \in 1..3 :
                 /\ errorMessage' = RateLimitMessage(n)
                 /\ (n - 1) * 1000 < RATE_LIMIT_COOLDOWN_MS - (clock - lastSubmitTime)
                 /\ RATE_LIMIT_COOLDOWN_MS - (clock - lastSubmitTime) <= n * 1000
            /\ posts' = posts
            /\ inflight' = inflight
            /\ fieldValues' = fieldValues
            /\ lastSubmitTime' = lastSubmitTime) ]_vars

C3_Witness ==
    /\ event = "submit"
    /\ status = "error"
    /\ AllFieldsPass
    /\ clock - lastSubmitTime = 1500
    /\ errorMessage = RateLimitMessage(2)
    /\ prevAttempt = [time |-> clock, posts |-> 0, made |-> TRUE]

\* C4 as stated: when a submit attempt with valid fields has issued a POST
\* and a second attempt with valid fields is made less than 3000 ms after
\* it, the second attempt issues no POST and shows the rate-limit message
\* with status error, the first request being in flight, succeeded or
\* failed.
C4_SecondAttemptRateLimited ==
    [][ (event' \in {"submit", "submitDisabled"} /\ AllFieldsPass
            /\ prevAttempt.made /\ prevAttempt.posts = 1
            /\ clock - prevAttempt.time < RATE_LIMIT_COOLDOWN_MS)
        => (/\ Len(posts') = Len(posts)
            /\ status' = "error"
            /\ IsRateLimitMessage(errorMessage')) ]_vars

\* C4 (amended): when a submit attempt with valid fields has issued a POST
\* and a second attempt with valid fields is made less than 3000 ms after
\* it, the second attempt issues no POST; it shows the rate-limit message
\* with status error when the first request has succeeded or failed, and
\* it has no effect (status stays submitting, no message) while the first
\* request is in flight, the submit button being disabled.
C4_SecondAttemptAfterPost ==
    [][ (event' \in {"submit", "submitDisabled"} /\ AllFieldsPass
            /\ prevAttempt.made /\ prevAttempt.posts = 1
            /\ clock - prevAttempt.time < RATE_LIMIT_COOLDOWN_MS)
        => (/\ Len(posts') = Len(posts)
            /\ Ids(inflight') = Ids(inflight)
            /\ IF posts[Len(posts)].outcome = "pending"
               THEN /\ event' = "submitDisabled"
                    /\ status' = "submitting"
                    /\ errorMessage' = ""
               ELSE /\ event' = "submit"
                    /\ status' = "error"
                    /\ IsRateLimitMessage(errorMessage')) ]_vars

C4_Witness ==
    /\ event = "submit"
    /\ status = "error"
    /\ IsRateLimitMessage(errorMessage)
    /\ Len(posts) = 1
    /\ posts[1].outcome = "success"
    /\ clock - posts[1].time < RATE_LIMIT_COOLDOWN_MS
    /\ prevAttempt = [time |-> clock, posts |-> 0, made |-> TRUE]

\* C5: the cooldown timestamp changes only in a submit step that passes the
\* validation check and the cooldown check, and becomes the time of that
\* step; every such step writes it, and no other step (response, rejected
\* submit, input, blur, send another) does.
C5_TimestampWrittenAtAttemptStart ==
    [][ /\ (lastSubmitTime' # lastSubmitTime
              => (/\ event' = "submit"
                  /\ AllFieldsPass
                  /\ clock - lastSubmitTime >= RATE_LIMIT_COOLDOWN_MS
                  /\ lastSubmitTime' = clock))
        /\ ((event' = "submit" /\ AllFieldsPass
                /\ clock - lastSubmitTime >= RATE_LIMIT_COOLDOWN_MS)
              => lastSubmitTime' = clock) ]_vars

C5_Witness ==
    /\ event = "response"
    /\ status = "success"
    /\ lastSubmitTime = posts[Len(posts)].time
    /\ lastSubmitTime < clock

\* the latest POST of the form was answered and ended in error
LastPostFailed ==
    /\ posts # <<>>
    /\ posts[Len(posts)].outcome = "error"

\* C6 as stated: after a POST that ended in error, and with no successful
\* submission in the preceding 3000 ms, a resubmit with valid fields enters
\* submitting and is not rejected with the rate-limit message.
C6_ResubmitAfterErrorAdmitted ==
    [][ (event' = "submit" /\ AllFieldsPass /\ LastPostFailed
            /\ \A i \in DOMAIN posts :
                 posts[i].outcome = "success"
                    => clock - posts[i].time >= RATE_LIMIT_COOLDOWN_MS)
        => (/\ status' = "submitting"
            /\ ~IsRateLimitMessage(errorMessage')) ]_vars

\* C6 (amended): the cooldown check compares against the start of the last
\* admitted attempt, whatever its outcome: after a POST that ended in
\* error, a resubmit with valid fields enters submitting when at least
\* 3000 ms have passed since that POST was started, and is otherwise
\* rejected with the rate-limit message and without a POST.
C6_ResubmitAfterErrorCooldown ==
    [][ (event' = "submit" /\ AllFieldsPass /\ LastPostFailed)
        => IF clock - posts[Len(posts)].time >= RATE_LIMIT_COOLDOWN_MS
           THEN /\ status' = "submitting"
                /\ errorMessage' = ""
                /\ Len(posts') = Len(posts) + 1
           ELSE /\ status' = "error"
                /\ IsRateLimitMessage(errorMessage')
                /\ Len(posts') = Len(posts) ]_vars

C6_Witness ==
    /\ event = "submit"
    /\ status = "error"
    /\ IsRateLimitMessage(errorMessage)
    /\ Len(posts) = 1
    /\ posts[1].outcome = "error"
    /\ clock - posts[1].time = 1500

AllFieldsEmpty ==
    /\ name = <<>>
    /\ email = <<>>
    /\ organization = <<>>
    /\ role = ""
    /\ message = <<>>

\* C7: while status is submitting, what the user does (typing, blur, role
\* change, submit click, nothing of the success panel being on screen)
\* changes neither status, nor a field value, nor the touched set, nor the
\* cooldown timestamp; status leaves submitting only when handleSubmit
\* resumes on the answer of the request in flight, and only for success or
\* error.
C7_SubmittingIsFrozen ==
    [][ status = "submitting"
        => (/\ event' \in {"submitDisabled", "inputDisabled", "tick",
                           "network", "response"}
            /\ (event' # "response"
                  => UNCHANGED <<status, fieldValues, touched, lastSubmitTime,
                                 errorMessage>>)
            /\ (status' # "submitting"
                  => (/\ event' = "response"
                      /\ inflight # {}
                      /\ inflight' = {}
                      /\ status' \in {"success", "error"}))
            /\ lastSubmitTime' = lastSubmitTime) ]_vars

C7_Witness ==
    /\ status = "submitting"
    /\ event \in {"submitDisabled", "inputDisabled"}
    /\ clock > lastSubmitTime

\* C8: at most one request is in flight; a POST is issued exactly in the
\* steps that take status into submitting, one POST per such step, and
\* handleSubmit never starts while a request is pending.
C8_OneRequestInFlight ==
    /\ [](Cardinality(inflight) <= 1)
    /\ []((inflight # {}) <=> (status = "submitting"))
    /\ [][ /\ (status # "submitting" /\ status' = "submitting")
                <=> (Len(posts') = Len(posts) + 1)
           /\ Len(posts') \in {Len(posts), Len(posts) + 1}
           /\ (Len(posts') = Len(posts) + 1
                 => (/\ endpoint # ""
                     /\ inflight = {}
                     /\ Ids(inflight') = {Len(posts')}))
           /\ (event' = "submit" => inflight = {}) ]_vars

C8_Witness ==
    /\ Cardinality(inflight) = 1
    /\ Len(posts) = 2
    /\ event = "submitDisabled"

\* C9: with no endpoint configured, a submit that passes validation and the
\* cooldown check ends with status error and the configuration-error
\* message, issues no request and leaves the field values unchanged.
C9_NoEndpointFailsAtOnce ==
    [][ (event' = "submit" /\ AllFieldsPass /\ endpoint = ""
            /\ clock - lastSubmitTime >= RATE_LIMIT_COOLDOWN_MS)
        => (/\ status' = "error"
            /\ errorMessage' = ConfigErrorMessage
            /\ posts' = <<>>
            /\ inflight' = {}
            /\ fieldValues' = fieldValues) ]_vars

C9_Witness ==
    /\ event = "submit"
    /\ endpoint = ""
    /\ status = "error"
    /\ errorMessage = ConfigErrorMessage
    /\ lastSubmitTime = clock
    /\ AllFieldsPass
    /\ posts = <<>>

\* C10: when handleSubmit resumes on an ok response, status becomes success,
\* the five field values become empty and the touched set becomes empty;
\* in every state with status success all fields are empty and no field is
\* touched.
C10_SuccessClearsForm ==
    /\ [][ (event' = "response"
              /\ \E r \in inflight : r.phase = "settled" /\ r.response.kind = "ok")
           => (/\ status' = "success"
               /\ AllFieldsEmpty'
               /\ touched' = {}) ]_vars
    /\ [](status = "success" => AllFieldsEmpty /\ touched = {})

C10_Witness ==
    /\ status = "success"
    /\ event = "tick"
    /\ AllFieldsEmpty
    /\ posts[Len(posts)].outcome = "success"

\* the handler resumes on an ok answer in this step
ResumesOnOk ==
    /\ event' = "response"
    /\ \E r \in inflight : r.phase = "settled" /\ r.response.kind = "ok"

\* C11: a field value changes only by user input or when handleSubmit
\* resumes on an ok answer, which empties all five; a validation-failed,
\* rate-limited or unconfigured submit, an HTTP error, a transport failure,
\* a blur and 'send another' leave the five values as they were.
C11_DraftClearedOnlyOnSuccess ==
    [][ fieldValues' # fieldValues
        => \/ event' = "input"
           \/ ResumesOnOk /\ status' = "success" /\ AllFieldsEmpty' ]_vars

C11_Witness ==
    /\ event = "response"
    /\ status = "error"
    /\ errorMessage = "Server error"
    /\ AllFieldsPass
    /\ role = "Other"
    /\ posts[Len(posts)].outcome = "error"

\* the answer the resumed handler is working on
AnswerKind(k) == \E r \in inflight : r.response.kind = k

StructuredMessage ==
    IF \E r \in inflight : r.response.body \notin {"", NotJson}
    THEN (CHOOSE r \in inflight : TRUE).response.body
    ELSE GenericErrorMessage

\* C12: when the request ends in failure, status is error and the banner
\* is, for every HTTP non-success answer, the first message of its
\* structured body or else the generic 'Something went wrong' text; the
\* network-error text appears only for a transport failure.
C12_BannerByFailureKind ==
    [][ (event' = "response" /\ status = "submitting" /\ status' = "error")
        => (/\ AnswerKind("http") => errorMessage' = StructuredMessage
            /\ errorMessage' = NetworkErrorMessage => AnswerKind("transport")) ]_vars

\* the field fails its validation rule now
FieldFails(f) ==
    CASE f = "name" -> NameError(name) # ""
      [] f = "email" -> EmailError(email) # ""
      [] f = "organization" -> OrganizationError(organization) # ""
      [] f = "message" -> MessageError(message) # ""

\* the error paragraph of the field is on screen (the form is not rendered
\* while the success panel is)
ErrorDisplayed(f) == status # "success" /\ showError(f) # ""

\* C13: a field's validation error is displayed exactly when the field is
\* touched and fails validation now; a field becomes touched only in a blur
\* step (one field) or in a submit step (all four), so an untouched field
\* shows no error even when it is invalid.
C13_ErrorsGatedByTouched ==
    /\ [](\A f \in ErrorFields :
            ErrorDisplayed(f) <=> (f \in touched /\ FieldFails(f)))
    /\ [][ touched' \ touched # {}
           => \/ event' = "submit" /\ touched' = AllTouched
              \/ event' = "blur" /\ Cardinality(touched' \ touched) = 1 ]_vars

C13_Witness ==
    /\ status = "idle"
    /\ Len(posts) = 1
    /\ posts[1].outcome = "success"
    /\ touched = {"name"}
    /\ ErrorDisplayed("name")
    /\ FieldFails("message")
    /\ ~ErrorDisplayed("message")

\* C14 as stated: a submit taken while a field fails validation marks the
\* four fields touched, issues no request, leaves the cooldown timestamp
\* and the field values unchanged, and leaves status idle, with no banner.
C14_InvalidSubmitLeavesIdle ==
    [][ (event' = "submit" /\ ~AllFieldsPass)
        => (/\ touched' = AllTouched
            /\ Len(posts') = Len(posts)
            /\ inflight' = inflight
            /\ lastSubmitTime' = lastSubmitTime
            /\ fieldValues' = fieldValues
            /\ status' = "idle") ]_vars

\* C14 (amended): a submit taken while a field fails validation marks the
\* four fields touched (every failing field shows its error), issues no
\* request, leaves the cooldown timestamp and the field values unchanged,
\* and leaves status and banner text as they were: idle without a banner
\* when taken from idle, error with the banner already shown when taken
\* from error.
C14_InvalidSubmitKeepsStatus ==
    [][ (event' = "submit" /\ ~AllFieldsPass)
        => (/\ touched' = AllTouched
            /\ \A f \in ErrorFields : FieldFails(f) => ErrorDisplayed(f)'
            /\ Len(posts') = Len(posts)
            /\ inflight' = inflight
            /\ lastSubmitTime' = lastSubmitTime
            /\ fieldValues' = fieldValues
            /\ status \in {"idle", "error"}
            /\ status' = status
            /\ errorMessage' = errorMessage) ]_vars

C14_Witness ==
    /\ event = "submit"
    /\ ~AllFieldsPass
    /\ touched = AllTouched
    /\ status = "error"
    /\ errorMessage = NetworkErrorMessage
    /\ ErrorDisplayed("organization")

\* C15: no submission error is final.  In every state with status error the
\* submit action can be taken; taken with all fields valid, the cooldown
\* elapsed and the endpoint configured it enters submitting with the banner
\* cleared and a POST issued, and an ok answer to that POST then gives
\* status success.
C15_ErrorIsRecoverable ==
    /\ [](status = "error" => ENABLED handleSubmit)
    /\ [][ (status = "error" /\ event' = "submit" /\ AllFieldsPass
              /\ clock - lastSubmitTime >= RATE_LIMIT_COOLDOWN_MS
              /\ endpoint # "")
           => (/\ status' = "submitting"
               /\ errorMessage' = ""
               /\ Len(posts') = Len(posts) + 1) ]_vars
    /\ [][ (status = "submitting" /\ ResumesOnOk) => status' = "success" ]_vars

C15_Witness ==
    /\ status = "success"
    /\ Len(posts) = 2
    /\ posts[1].outcome = "error"
    /\ posts[2].outcome = "success"

\* C16: status leaves success only for idle and only by the 'send another'
\* click (no submit, input or blur happens while the success panel is
\* shown); the form then shown is empty: five empty fields, nothing
\* touched, no field error and no banner.
C16_SendAnotherGivesEmptyForm ==
    [][ status = "success"
        => (/\ event' \in {"sendAnother", "tick"}
            /\ status' \in {"success", "idle"}
            /\ fieldValues' = fieldValues
            /\ touched' = touched
            /\ (status' = "idle"
                  => (/\ event' = "sendAnother"
                      /\ AllFieldsEmpty'
                      /\ touched' = {}
                      /\ \A f \in ErrorFields : ~ErrorDisplayed(f)'
                      /\ errorMessage' = ""))) ]_vars

C16_Witness ==
    /\ event = "sendAnother"
    /\ status = "idle"
    /\ AllFieldsEmpty
    /\ touched = {}
    /\ errorMessage = ""
    /\ Len(posts) = 1
    /\ posts[1].outcome = "success"

\* t is s without its surrounding whitespace: s is t between two runs of
\* whitespace, and t neither starts nor ends with whitespace
IsTrimOf(t, s) ==
    /\ t = <<>> \/ (~IsSpace(t[1]) /\ ~IsSpace(t[Len(t)]))
    /\ \E a \in 0..Len(s) :
         /\ a + Len(t) <= Len(s)
         /\ \A k \in 1..a : IsSpace(s[k])
         /\ \A k \in 1..Len(t) : s[a + k] = t[k]
         /\ \A k \in (a + Len(t) + 1)..Len(s) : IsSpace(s[k])

\* the body is made of the five current values, four trimmed, role as it is
BodyOfCurrentValues(b) ==
    /\ DOMAIN b = {"name", "email", "organization", "role", "message"}
    /\ IsTrimOf(b.name, name)
    /\ IsTrimOf(b.email, email)
    /\ IsTrimOf(b.organization, organization)
    /\ b.role = role
    /\ IsTrimOf(b.message, message)

\* C17: the body of a POST holds exactly the five field values of the
\* moment the submit is accepted, name, email, organization and message
\* without surrounding whitespace and role as selected; the fields stay
\* those values while the request is in flight, so they are the values an
\* ok answer clears.
C17_BodyIsTrimmedDraft ==
    /\ [][ Len(posts') = Len(posts) + 1
           => \E r \in inflight' :
                /\ r.id = Len(posts')
                /\ BodyOfCurrentValues(r.request)
                /\ fieldValues' = fieldValues ]_vars
    /\ [](\A r \in inflight : BodyOfCurrentValues(r.request))

C17_Witness ==
    /\ \E r \in inflight :
         /\ r.phase = "settled"
         /\ r.response.kind = "ok"
         /\ r.request.name = <<"a", "b">>
         /\ r.request.message = Str(MIN_MESSAGE_LENGTH, "m")
         /\ r.request.role = "Other"
    /\ name = <<"\f", "a", "b", " ">>
    /\ role = "Other"

\* every character of s is whitespace
IsBlank(s) == \A k \in 1..Len(s) : IsSpace(s[k])

\* s between its first and its last character that is not whitespace
Core(s) ==
    IF IsBlank(s) THEN <<>>
    ELSE LET first == CHOOSE i \in 1..Len(s) :
                         ~IsSpace(s[i]) /\ \A k \in 1..(i - 1) : IsSpace(s[k])
             last == CHOOSE j \in 1..Len(s) :
                         ~IsSpace(s[j]) /\ \A k \in (j + 1)..Len(s) : IsSpace(s[k])
         IN [k \in 1..(last - first + 1) |-> s[first + k - 1]]

\* the entry of the field in errors(), "" when it has none
ErrorText(f) == IF f \in DOMAIN errors THEN errors[f] ELSE ""

\* C18: a whitespace-only value validates like the empty value: Required
\* for name, email and message, no failure for organization.
C18_BlankIsEmpty ==
    /\ IsBlank(name)
         => /\ ErrorText("name") = "Name is required"
            /\ ErrorText("name") = NameError(<<>>)
    /\ IsBlank(email)
         => /\ ErrorText("email") = "Email is required"
            /\ ErrorText("email") = EmailError(<<>>)
    /\ IsBlank(message)
         => /\ ErrorText("message") = "Message is required"
            /\ ErrorText("message") = MessageError(<<>>)
    /\ IsBlank(organization)
         => /\ ErrorText("organization") = ""
            /\ ErrorText("organization") = OrganizationError(<<>>)

C18_Witness ==
    /\ event = "submit"
    /\ touched = AllTouched
    /\ name = <<" ">>
    /\ email = <<NBSP>>
    /\ organization = <<OghamSpace>>
    /\ message = <<"\n", "\t">>
    /\ showError("name") = "Name is required"
    /\ showError("email") = "Email is required"
    /\ showError("message") = "Message is required"
    /\ showError("organization") = ""

\* C19: the form is valid iff no field fails, where name fails with
\* Required at trimmed length 0 and TooShort at 1, organization fails only
\* with TooShort at trimmed length 1, message fails with Required at 0 and
\* TooShort at 1..9 and passes from 10 on, and role has no rule.
C19_LengthRules ==
    /\ ErrorText("name") =
         (IF Len(Core(name)) = 0 THEN "Name is required"
          ELSE IF Len(Core(name)) = 1 THEN "Name must be at least 2 characters"
          ELSE "")
    /\ ErrorText("organization") =
         (IF Len(Core(organization)) = 1
          THEN "Organization must be at least 2 characters" ELSE "")
    /\ ErrorText("message") =
         (IF Len(Core(message)) = 0 THEN "Message is required"
          ELSE IF Len(Core(message)) \in 1..9
               THEN "Message must be at least 10 characters"
          ELSE "")
    /\ "role" \notin DOMAIN errors
    /\ isValid <=> (\A f \in ErrorFields : ~FieldFails(f))
    /\ isValid <=> (/\ Len(Core(name)) >= 2
                    /\ EmailError(email) = ""
                    /\ Len(Core(organization)) # 1
                    /\ Len(Core(message)) >= 10)

C19_Witness ==
    /\ event = "submit"
    /\ status \in {"submitting", "error"}
    /\ lastSubmitTime = clock
    /\ Len(message) = 12
    /\ Len(Core(message)) = 10
    /\ Len(Core(name)) = 2
    /\ isValid

\* the text matches ^[^\s@]+@[^\s@]+\.[^\s@]{2,}$ : no whitespace, one '@'
\* that is not the first character, and after it a '.' with at least one
\* character before it and at least two behind it
MatchesPattern(s) ==
    /\ \A k \in 1..Len(s) : ~IsSpace(s[k])
    /\ Cardinality({k \in 1..Len(s) : s[k] = "@"}) = 1
    /\ LET at == CHOOSE k \in 1..Len(s) : s[k] = "@"
       IN /\ at >= 2
          /\ \E j \in (at + 2)..(Len(s) - 2) : s[j] = "."

\* C20 as stated: the email fails with Required when the value is empty and
\* otherwise fails, with InvalidFormat, exactly when the value does not
\* match the pattern; 'a@b.co' passes and 'invalid-email' fails.
C20_EmailRuleOnRawValue ==
    /\ email = <<>> => ErrorText("email") = "Email is required"
    /\ email # <<>>
         => ErrorText("email") =
              (IF MatchesPattern(email) THEN ""
               ELSE "Please enter a valid email address")
    /\ email = AtBCo => ErrorText("email") = ""
    /\ email = InvalidEmail
         => ErrorText("email") = "Please enter a valid email address"

\* C20 (amended): the email fails with Required when the value is empty
\* after trimming, and otherwise fails, with InvalidFormat, exactly when
\* the trimmed value does not match the pattern; 'a@b.co' passes and
\* 'invalid-email' fails.
C20_EmailRuleOnTrimmedValue ==
    /\ IsBlank(email) => ErrorText("email") = "Email is required"
    /\ ~IsBlank(email)
         => ErrorText("email") =
              (IF MatchesPattern(Core(email)) THEN ""
               ELSE "Please enter a valid email address")
    /\ email = AtBCo => ErrorText("email") = ""
    /\ email = InvalidEmail
         => ErrorText("email") = "Please enter a valid email address"

C20_Witness ==
    /\ event = "submit"
    /\ touched = AllTouched
    /\ email = <<NBSP>> \o AtBCo \o <<NBSP>>
    /\ ~MatchesPattern(email)
    /\ showError("email") = ""
    /\ showError("name") = "Name is required"

\* C21: the banner text is non-empty whenever status is error and empty
\* whenever status is idle, submitting or success; a submit taken from
\* status error while a field fails validation leaves status error and the
\* banner text as it was.
C21_BannerTextFollowsStatus ==
    /\ [](/\ status = "error" => errorMessage # ""
          /\ status \in {"idle", "submitting", "success"} => errorMessage = "")
    /\ [][ (event' = "submit" /\ status = "error" /\ ~AllFieldsPass)
           => (status' = "error" /\ errorMessage' = errorMessage) ]_vars

C21_Witness ==
    /\ event = "submit"
    /\ status = "error"
    /\ ~AllFieldsPass
    /\ errorMessage = "Server error"
    /\ Len(posts) = 1
    /\ posts[1].outcome = "error"
    /\ inflight = {}

\* the step is a submit with all fields valid that is turned away with the
\* message announcing a wait of n seconds
RateLimitedWith(n) ==
    /\ event' = "submit"
    /\ AllFieldsPass
    /\ status' = "error"
    /\ errorMessage' = RateLimitMessage(n)
    /\ lastSubmitTime' = lastSubmitTime
    /\ Len(posts') = Len(posts)

ShownSeconds == (-1)..4

\* C22: on a clock that never runs backwards, the seconds shown in the
\* rate-limit message are the ceiling of (3000 - elapsed) / 1000 and are 1,
\* 2 or 3, never 0 or less; and the first submit after mount, while the
\* cooldown timestamp is still 0, is never rate-limited.
C22_SecondsShownFirstSubmitFree ==
    /\ [][ \A n \in ShownSeconds :
             RateLimitedWith(n)
               => /\ n \in 1..3
                  /\ (n - 1) * 1000 < 3000 - (clock - lastSubmitTime)
                  /\ 3000 - (clock - lastSubmitTime) <= n * 1000 ]_vars
    /\ [][ (event' = "submit" /\ AllFieldsPass /\ lastSubmitTime = 0)
           => ~(\E n \in ShownSeconds : RateLimitedWith(n)) ]_vars

C22_Witness ==
    /\ event = "submit"
    /\ status = "error"
    /\ errorMessage = RateLimitMessage(1)
    /\ clock - lastSubmitTime = 2999
    /\ Len(posts) = 1
    /\ posts[1].time = lastSubmitTime
    /\ posts[1].time \in ClockStarts
    /\ posts[1].outcome = "error"

TypeOK ==
    /\ status \in {"idle", "submitting", "success", "error"}
    /\ touched \subseteq AllTouched
    /\ name \in NameInputs
    /\ email \in EmailInputs
    /\ organization \in OrganizationInputs
    /\ role \in RoleInputs
    /\ message \in MessageInputs
    /\ lastSubmitTime \in Nat
    /\ clock \in Nat
====
